---- MODULE Spec2Model ----
(***************************************************************************)
(* Model of component/src/lib.rs: the embedded component manifest, its     *)
(* deserialisation into Components, and the query functions over it.       *)
(*                                                                         *)
(* Strings are sequences of bytes, so that String ordering (sort_by_key)   *)
(* and str::contains are computed as the code computes them.               *)
(* Option<T> is a sequence of length 0 (None) or 1 (Some).                 *)
(* Result<T> / a panic is a record tagged "ok" / "err" / "panic".          *)
(* A manifest text is a sequence of [component.<key>] sections; a section  *)
(* holds its key and the entries (field name -> value) it writes.          *)
(***************************************************************************)
EXTENDS Integers, Sequences, FiniteSets, TLC

VARIABLES manifest, call, outcome, plugins

vars == <<manifest, call, outcome, plugins>>

(* ---------------------------- bounds ----------------------------------- *)
MaxSections == 2
MaxParseSections == 1

(* ------------------------- byte strings -------------------------------- *)
FUELUP == <<102, 117, 101, 108, 117, 112>>

StrA == <<97>>
StrB == <<98>>
StrAB == <<97, 98>>
StrBA == <<98, 97>>
StrEmpty == <<>>
ExeX == <<120>>
ExeY == <<121>>
PrefixT == <<116>>
RepoR == <<114>>
TargetL == <<108>>

(* ----------------------- Option and Result ----------------------------- *)
None == <<>>
Some(v) == <<v>>
is_none(o) == Len(o) = 0
is_some(o) == Len(o) = 1
unwrap_or_default(o) == IF is_some(o) THEN o[1] ELSE FALSE

Ok(v) == [kind |-> "ok", value |-> v]
Err(e) == [kind |-> "err", error |-> e]
Panic(m) == [kind |-> "panic", msg |-> m]

ParseError == [type |-> "ParseError"]
NotFound(name) ==
    [type |-> "NotFound", fmt |-> "component with name '{}' does not exist", arg |-> name]

(* --------------------------- String ------------------------------------ *)
MinInt(a, b) == IF a < b THEN a ELSE b

\* Ord for String: lexicographic on bytes, a proper prefix is smaller.
StrLt(a, b) ==
    \E i \in 1..(MinInt(Len(a), Len(b)) + 1) :
        /\ \A j \in 1..(i - 1) : a[j] = b[j]
        /\ \/ (i > Len(a) /\ i <= Len(b))
           \/ (i <= Len(a) /\ i <= Len(b) /\ a[i] < b[i])

StrLe(a, b) == a = b \/ StrLt(a, b)

\* str::starts_with in place of str::contains.
StrStartsWith(hay, needle) ==
    /\ Len(needle) <= Len(hay)
    /\ \A j \in 1..Len(needle) : hay[j] = needle[j]

\* str::contains: some window of the haystack equals the needle.
StrContains(hay, needle) ==
    /\ Len(needle) <= Len(hay)
    /\ \E s \in 1..(Len(hay) - Len(needle) + 1) :
          \A j \in 1..Len(needle) : hay[s + j - 1] = needle[j]

RECURSIVE ConcatAll(_)
\* Iterator<String>::collect::<String>() and Vec::extend in a loop.
ConcatAll(ss) ==
    IF ss = <<>> THEN <<>> ELSE Head(ss) \o ConcatAll(Tail(ss))

(* ------------------------ deserialisation ------------------------------ *)
FieldNames ==
    {"name", "is_plugin", "tarball_prefix", "executables",
     "repository_name", "targets", "publish"}

RequiredFields ==
    {"name", "tarball_prefix", "executables", "repository_name", "targets"}

\* An Option field under #[serde(default)] on a plain bool: absent reads as false.
OptionFieldDefaulted(entries, f) ==
    IF f \in DOMAIN entries THEN Some(entries[f]) ELSE Some(FALSE)

\* An Option field: absent in the section reads as None.
OptionField(entries, f) ==
    IF f \in DOMAIN entries THEN Some(entries[f]) ELSE None

\* #[derive(Deserialize)] for Component.
DeComponent(entries) ==
    IF RequiredFields \subseteq DOMAIN entries
    THEN Ok([name            |-> entries["name"],
             is_plugin       |-> OptionField(entries, "is_plugin"),
             tarball_prefix  |-> entries["tarball_prefix"],
             executables     |-> entries["executables"],
             repository_name |-> entries["repository_name"],
             targets         |-> entries["targets"],
             publish         |-> OptionField(entries, "publish")])
    ELSE Err(ParseError)

SectionKeys(toml) == {toml[i].key : i \in 1..Len(toml)}

DuplicateKey(toml) ==
    \E i, j \in 1..Len(toml) : i # j /\ toml[i].key = toml[j].key

\* Components::from_toml: the table `component` into HashMap<String, Component>.
from_toml(toml) ==
    IF DuplicateKey(toml) THEN Err(ParseError)
    ELSE IF \E i \in 1..Len(toml) : DeComponent(toml[i].entries).kind = "err"
    THEN Err(ParseError)
    ELSE Ok([component |->
               [k \in SectionKeys(toml) |->
                  LET i == CHOOSE n \in 1..Len(toml) : toml[n].key = k
                  IN  DeComponent(toml[i].entries).value]])

\* Components::collect
collect(toml) == from_toml(toml)

(* ------------------------- HashMap iteration --------------------------- *)
\* HashMap::keys(): every key once, in an order the hasher state decides.
KeyOrders(map) ==
    {o \in [1..Cardinality(DOMAIN map) -> DOMAIN map] :
        \A i, j \in DOMAIN o : i # j => o[i] # o[j]}

\* .keys().map(|c| components.component.get(c).expect(..))
Values(map, order) == [i \in DOMAIN order |-> map[order[i]]]

\* Stable insertion: x goes after every element whose name is <= x.name.
RECURSIVE InsertByName(_, _)
InsertByName(x, s) ==
    IF s = <<>> THEN <<x>>
    ELSE IF StrLe(Head(s).name, x.name) THEN <<Head(s)>> \o InsertByName(x, Tail(s))
    ELSE <<x>> \o s

RECURSIVE sort_by_key(_)
\* slice::sort_by_key(|c| c.name.clone()): stable, ascending by name.
sort_by_key(s) ==
    IF s = <<>> THEN <<>>
    ELSE InsertByName(s[Len(s)], sort_by_key(SubSeq(s, 1, Len(s) - 1)))

(* ----------------------------- queries --------------------------------- *)
\* The FUELUP record with is_plugin left unset.
FuelupComponentUnset ==
    [name            |-> FUELUP,
     tarball_prefix  |-> FUELUP,
     executables     |-> <<FUELUP>>,
     repository_name |-> FUELUP,
     targets         |-> <<FUELUP>>,
     is_plugin       |-> None,
     publish         |-> Some(TRUE)]

\* The record Component::from_name builds for FUELUP.
FuelupComponent ==
    [name            |-> FUELUP,
     tarball_prefix  |-> FUELUP,
     executables     |-> <<FUELUP>>,
     repository_name |-> FUELUP,
     targets         |-> <<FUELUP>>,
     is_plugin       |-> Some(FALSE),
     publish         |-> Some(TRUE)]

\* A lookup that searches the name fields instead of the keys.
MapFindByNameField(map, name) ==
    IF \E k \in DOMAIN map : map[k].name = name
    THEN Ok(map[CHOOSE k \in DOMAIN map : map[k].name = name])
    ELSE Err(NotFound(name))

\* components.component.get(name).ok_or_else(..).and_then(|c| Ok(c.clone()))
MapGet(map, name) ==
    IF name \in DOMAIN map THEN Ok(map[name]) ELSE Err(NotFound(name))

\* Component::from_name
from_name(name, toml) ==
    IF name = FUELUP THEN Ok(FuelupComponent)
    ELSE LET components == collect(toml)
         IN  IF components.kind # "ok"
             THEN Panic("Could not collect components")
             ELSE MapGet(components.value.component, name)

\* A filter on the value of publish instead of its presence.
KeepPublishTrue(c) == unwrap_or_default(c.publish)

\* filter_map(|c| c.publish.and_then(|_| Some(c.clone())))
KeepPublishable(c) == is_some(c.publish)

\* A filter that also keeps explicit is_plugin = false.
KeepNotPlugin(c) == ~unwrap_or_default(c.is_plugin)

\* filter_map(|c| c.is_plugin.is_none().then(|| c.clone()))
KeepMain(c) == is_none(c.is_plugin)

\* A filter on the presence of is_plugin instead of its value.
KeepIsPluginPresent(c) == is_some(c.is_plugin)

\* filter(|&c| c.is_plugin.unwrap_or_default())
KeepPlugin(c) == unwrap_or_default(c.is_plugin)

\* Plugin { name: p.name.clone(), executables: p.executables.clone() }
ToPlugin(p) == [name |-> p.name, executables |-> p.executables]

\* Components::collect_publishables, the map iterated in `order`.
collect_publishables(toml, order) ==
    LET components == from_toml(toml)
    IN  IF components.kind # "ok" THEN components
        ELSE Ok(sort_by_key(SelectSeq(Values(components.value.component, order),
                                      KeepPublishable)))

\* Components::collect_exclude_plugins
collect_exclude_plugins(toml, order) ==
    LET components == from_toml(toml)
    IN  IF components.kind # "ok" THEN components
        ELSE Ok(sort_by_key(SelectSeq(Values(components.value.component, order),
                                      KeepMain)))

\* Components::collect_plugins
collect_plugins(toml, order) ==
    LET components == from_toml(toml)
    IN  IF components.kind # "ok" THEN components
        ELSE LET kept == SelectSeq(Values(components.value.component, order), KeepPlugin)
             IN  Ok(sort_by_key([i \in DOMAIN kept |-> ToPlugin(kept[i])]))

RECURSIVE Dedup(_)
Dedup(s) ==
    IF s = <<>> THEN <<>>
    ELSE LET front == Dedup(SubSeq(s, 1, Len(s) - 1))
         IN  IF \E i \in DOMAIN front : front[i] = s[Len(s)] THEN front
             ELSE Append(front, s[Len(s)])

\* A flattening that drops repeated executable names.
FlattenExecutablesDedup(ps) == Dedup(ConcatAll([i \in DOMAIN ps |-> ps[i].executables]))

\* The loop of collect_plugin_executables: executables.extend(plugin.executables)
FlattenExecutables(ps) == ConcatAll([i \in DOMAIN ps |-> ps[i].executables])

\* Components::collect_plugin_executables, given the result of its collect_plugins call.
collect_plugin_executables(pluginsResult) ==
    IF pluginsResult.kind # "ok" THEN pluginsResult
    ELSE Ok(FlattenExecutables(pluginsResult.value))

\* Components::contains_published
contains_published(name, toml, order) ==
    LET publishables == collect_publishables(toml, order)
    IN  IF publishables.kind # "ok"
        THEN Panic("Failed to collect publishable components")
        ELSE Ok(StrContains(
                  ConcatAll([i \in DOMAIN publishables.value |-> publishables.value[i].name]),
                  name))

\* The iteration orders one call can see: those of the map it parsed.
Orders(toml) ==
    IF from_toml(toml).kind = "ok" THEN KeyOrders(from_toml(toml).value.component)
    ELSE {<<>>}

(* ----------------------------- inputs ---------------------------------- *)
Args == {StrEmpty, StrA, StrB, StrAB, StrBA, FUELUP}
Keys == {StrA, StrB, FUELUP}

\* A section of the text: the entries are exactly the fields it writes;
\* ch[f] is <<>> when the section omits f and <<v>> when it writes f = v.
MkSection(k, ch) ==
    [key |-> k,
     entries |-> [f \in {g \in FieldNames : Len(ch[g]) = 1} |-> ch[f][1]]]

Sections(keys, names, isPlugins, prefixes, exes, repos, targets, publishes) ==
    {MkSection(k, ch) :
        k \in keys,
        ch \in [name : names, is_plugin : isPlugins, tarball_prefix : prefixes,
                executables : exes, repository_name : repos, targets : targets,
                publish : publishes]}

Docs(pool, n) == UNION {[1..m -> pool] : m \in 0..n}

TriState == {None, Some(TRUE), Some(FALSE)}

\* Sections that vary the key, the name and is_plugin.
MainPool ==
    Sections(Keys, {Some(StrA), Some(StrB)}, TriState, {Some(PrefixT)},
             {Some(<<ExeX>>)}, {Some(RepoR)}, {Some(<<TargetL>>)},
             {Some(TRUE)})

\* Sections that vary the name (one a prefix of another) and publish.
PublishPool ==
    Sections(Keys, {Some(StrA), Some(StrAB), Some(StrB)}, {None}, {Some(PrefixT)},
             {Some(<<ExeX>>)}, {Some(RepoR)}, {Some(<<TargetL>>)},
             TriState)

\* Sections that vary the name and is_plugin, and the executables of plugins.
PluginPool ==
    Sections(Keys, {Some(StrA), Some(StrB)}, TriState, {Some(PrefixT)},
             {Some(<<ExeX>>)}, {Some(RepoR)}, {Some(<<TargetL>>)}, {None})
    \cup
    Sections(Keys, {Some(StrA), Some(StrB)}, {Some(TRUE)}, {Some(PrefixT)},
             {Some(<<ExeY, ExeX>>)}, {Some(RepoR)}, {Some(<<TargetL>>)}, {None})

\* Sections for the parser: every presence state of the optional fields,
\* and at most one required field left out.
ParsePool ==
    LET one(f, omitted, v) == IF f = omitted THEN {None} ELSE {Some(v)}
    IN  UNION {Sections({StrA, StrB}, one("name", o, StrB), TriState,
                        one("tarball_prefix", o, PrefixT),
                        one("executables", o, <<ExeY, ExeX>>),
                        one("repository_name", o, RepoR),
                        one("targets", o, <<TargetL, PrefixT>>), TriState) :
               o \in RequiredFields \cup {"none"}}

(* ----------------------------- actions --------------------------------- *)
NoCall == [op |-> "none", arg |-> <<>>]

InitWith(docs) ==
    /\ manifest \in docs
    /\ call = NoCall
    /\ outcome = Ok(<<>>)
    /\ plugins = Ok(<<>>)

Init == InitWith(Docs(MainPool, MaxSections))
InitPublish == InitWith(Docs(PublishPool, MaxSections))
InitPlugins == InitWith(Docs(PluginPool, MaxSections))
InitParse == InitWith(Docs(ParsePool, MaxParseSections))

Return(op, arg, result) ==
    /\ call' = [op |-> op, arg |-> arg]
    /\ outcome' = result
    /\ UNCHANGED manifest

Collect ==
    /\ Return("collect", <<>>, collect(manifest))
    /\ plugins' = Ok(<<>>)

FromName ==
    \E name \in Args :
        /\ Return("from_name", name, from_name(name, manifest))
        /\ plugins' = Ok(<<>>)

ContainsPublished ==
    \E name \in Args : \E order \in Orders(manifest) :
        /\ Return("contains_published", name, contains_published(name, manifest, order))
        /\ plugins' = Ok(<<>>)

CollectPublishables ==
    \E order \in Orders(manifest) :
        /\ Return("collect_publishables", <<>>, collect_publishables(manifest, order))
        /\ plugins' = Ok(<<>>)

CollectExcludePlugins ==
    \E order \in Orders(manifest) :
        /\ Return("collect_exclude_plugins", <<>>, collect_exclude_plugins(manifest, order))
        /\ plugins' = Ok(<<>>)

CollectPlugins ==
    \E order \in Orders(manifest) :
        /\ Return("collect_plugins", <<>>, collect_plugins(manifest, order))
        /\ plugins' = Ok(<<>>)

CollectPluginExecutables ==
    \E order \in Orders(manifest) :
        /\ plugins' = collect_plugins(manifest, order)
        /\ Return("collect_plugin_executables", <<>>,
                  collect_plugin_executables(plugins'))

Next ==
    \/ Collect
    \/ FromName
    \/ ContainsPublished
    \/ CollectPublishables
    \/ CollectExcludePlugins
    \/ CollectPlugins
    \/ CollectPluginExecutables

Spec == Init /\ [][Next]_vars
SpecPublish == InitPublish /\ [][Next]_vars
SpecPlugins == InitPlugins /\ [][Next]_vars
SpecParse == InitParse /\ [][Next]_vars

(* ------------------------ helpers of the claims ------------------------ *)
Parses == from_toml(manifest).kind = "ok"
Parsed == from_toml(manifest).value.component

Count(seq, r) == Cardinality({i \in DOMAIN seq : seq[i] = r})
Stored(r) == Cardinality({k \in DOMAIN Parsed : Parsed[k] = r})
StoredRecords == {Parsed[k] : k \in DOMAIN Parsed}
Elements(seq) == {seq[i] : i \in DOMAIN seq}

AscendingByName(seq) ==
    \A i, j \in DOMAIN seq : i < j => StrLe(seq[i].name, seq[j].name)

\* seq holds exactly the stored records that satisfy want, one per entry.
ExactlyThose(seq, want(_)) ==
    \A r \in StoredRecords \cup Elements(seq) :
        Count(seq, r) = IF want(r) THEN Stored(r) ELSE 0

RECURSIVE LenBefore(_, _)
\* Number of executables of the plugins before position i.
LenBefore(ps, i) ==
    IF i <= 1 THEN 0 ELSE LenBefore(ps, i - 1) + Len(ps[i - 1].executables)

\* needle occurs in hay as the slice between two cut points.
IsSlice(hay, needle) ==
    \E lo \in 0..Len(hay) : \E hi \in lo..Len(hay) : SubSeq(hay, lo + 1, hi) = needle

ConsultingOps ==
    {"from_name", "collect_exclude_plugins", "collect_publishables",
     "collect_plugins", "collect_plugin_executables", "contains_published"}

(* ------------------------------- C1 ------------------------------------ *)
\* C1: when the manifest fails to parse, every operation that consults it
\* (from_name for a name other than "fuelup", the four listings,
\* contains_published) returns the parse failure as an error result; none
\* panics.
C1_ParseFailureReturned ==
    (/\ ~Parses
     /\ call.op \in ConsultingOps
     /\ ~(call.op = "from_name" /\ call.arg = FUELUP))
    => outcome = Err(ParseError)

(* ------------------------------- C2 ------------------------------------ *)
\* C2: from_name("fuelup") succeeds with the fixed record (is_plugin
\* Some(false), publish Some(true), executables and targets ["fuelup"],
\* the other strings "fuelup"), whatever the manifest holds.
C2_FuelupFixed ==
    (call.op = "from_name" /\ call.arg = FUELUP)
    => /\ outcome.kind = "ok"
       /\ outcome.value.name = <<102, 117, 101, 108, 117, 112>>
       /\ outcome.value.is_plugin = <<FALSE>>
       /\ outcome.value.publish = <<TRUE>>
       /\ outcome.value.executables = <<outcome.value.name>>
       /\ outcome.value.targets = <<outcome.value.name>>
       /\ outcome.value.tarball_prefix = outcome.value.name
       /\ outcome.value.repository_name = outcome.value.name

\* from_name("fuelup") was called on a manifest that fails to parse and
\* that has sections keyed "fuelup".
C2_Witness ==
    /\ call.op = "from_name" /\ call.arg = FUELUP
    /\ ~Parses
    /\ \E i \in DOMAIN manifest : manifest[i].key = FUELUP

(* ------------------------------- C3 ------------------------------------ *)
\* C3: on a manifest that parses, from_name(X), X not "fuelup", returns the
\* record stored under key X when X is a key and fails with NotFound naming
\* X otherwise; the name fields play no part.
C3_LookupByKey ==
    (call.op = "from_name" /\ call.arg # FUELUP /\ Parses)
    => IF \E i \in DOMAIN manifest : manifest[i].key = call.arg
       THEN outcome = Ok(Parsed[call.arg])
       ELSE /\ outcome.kind = "err"
            /\ outcome.error.type = "NotFound"
            /\ outcome.error.arg = call.arg

\* A lookup failed with NotFound although a component's name field is X.
C3_Witness ==
    /\ call.op = "from_name" /\ call.arg # FUELUP /\ Parses
    /\ outcome.kind = "err"
    /\ \E k \in DOMAIN Parsed : Parsed[k].name = call.arg

(* ------------------------------- C4 ------------------------------------ *)
IsPluginAbsent(c) == c.is_plugin = <<>>

\* C4: on a manifest that parses, collect_exclude_plugins returns exactly
\* the components whose is_plugin is absent, each once, ascending by name.
C4_ExcludePlugins ==
    (call.op = "collect_exclude_plugins" /\ Parses)
    => /\ outcome.kind = "ok"
       /\ ExactlyThose(outcome.value, IsPluginAbsent)
       /\ AscendingByName(outcome.value)

\* The listing kept a component and left out one with explicit false.
C4_Witness ==
    /\ call.op = "collect_exclude_plugins" /\ Parses
    /\ Len(outcome.value) >= 1
    /\ \E k \in DOMAIN Parsed : Parsed[k].is_plugin = <<FALSE>>

(* ------------------------------- C5 ------------------------------------ *)
PublishPresent(c) == c.publish # <<>>

\* C5: on a manifest that parses, collect_publishables returns exactly the
\* components whose publish is present (true or false), each once,
\* ascending by name.
C5_Publishables ==
    (call.op = "collect_publishables" /\ Parses)
    => /\ outcome.kind = "ok"
       /\ ExactlyThose(outcome.value, PublishPresent)
       /\ AscendingByName(outcome.value)

\* The listing holds a component with publish = false and left one out.
C5_Witness ==
    /\ call.op = "collect_publishables" /\ Parses
    /\ \E i \in DOMAIN outcome.value : outcome.value[i].publish = <<FALSE>>
    /\ \E k \in DOMAIN Parsed : Parsed[k].publish = <<>>

(* ------------------------------- C6 ------------------------------------ *)
\* C6: on a manifest that parses, collect_plugins returns one Plugin (name
\* and executables unchanged) per component whose is_plugin is true, none
\* for absent or false, ascending by name.
C6_Plugins ==
    (call.op = "collect_plugins" /\ Parses)
    => /\ outcome.kind = "ok"
       /\ \A p \in Elements(outcome.value) \cup
                   {[name |-> r.name, executables |-> r.executables] : r \in StoredRecords} :
             Count(outcome.value, p) =
                Cardinality({k \in DOMAIN Parsed :
                               /\ Parsed[k].is_plugin = <<TRUE>>
                               /\ Parsed[k].name = p.name
                               /\ Parsed[k].executables = p.executables})
       /\ AscendingByName(outcome.value)

\* A plugin with two executables was listed; a non-plugin was left out.
C6_Witness ==
    /\ call.op = "collect_plugins" /\ Parses
    /\ \E i \in DOMAIN outcome.value : Len(outcome.value[i].executables) = 2
    /\ \E k \in DOMAIN Parsed : Parsed[k].is_plugin = <<FALSE>>

C8_SameCallSameResult ==
    [][(call' = call) => (outcome' = outcome)]_vars

(* ------------------------------- C9 ------------------------------------ *)
\* C9: on a manifest that parses, contains_published(name) is true exactly
\* when name is a contiguous slice of the names of collect_publishables()
\* joined in list order with no separator.
C9_SubstringOfJoinedNames ==
    (call.op = "contains_published" /\ Parses)
    => \A o \in Orders(manifest) :
          LET list == collect_publishables(manifest, o).value
              joined == ConcatAll([i \in DOMAIN list |-> list[i].name])
          IN  outcome = Ok(IsSlice(joined, call.arg))

\* A string that is no component's name, spanning two names, is "published".
C9_Witness ==
    /\ call.op = "contains_published" /\ Parses
    /\ outcome.value = TRUE
    /\ call.arg # <<>>
    /\ \A k \in DOMAIN Parsed :
          ~(\E lo \in 0..Len(Parsed[k].name) : \E hi \in lo..Len(Parsed[k].name) :
               SubSeq(Parsed[k].name, lo + 1, hi) = call.arg)

(* ------------------------------- C10 ----------------------------------- *)
WritesRequired(i) ==
    {"name", "tarball_prefix", "executables", "repository_name", "targets"}
        \subseteq DOMAIN manifest[i].entries

DistinctKeys ==
    \A i, j \in DOMAIN manifest : manifest[i].key = manifest[j].key => i = j

====
